---------------------------- MODULE Spec2Model ----------------------------
(***************************************************************************)
(* A model of SitemapLoader.load_data (embedchain/loaders/sitemap.py).     *)
(*                                                                         *)
(* One call of load_data is one orchestrating thread (the caller's) and    *)
(* one worker per submitted future of the ThreadPoolExecutor.  The state   *)
(* is the locals of load_data, the futures of the executor, the log, and   *)
(* what the call hands back to its caller (a result record or an           *)
(* exception).                                                             *)
(*                                                                         *)
(* Idealisations, each stated where it is used:                            *)
(*   - hashlib.sha256(...).hexdigest() is an injective tag of its input;   *)
(*   - the parsed sitemap is the sequence of its elements in document      *)
(*     order, each with its tag name, its parent's tag name and its text;  *)
(*   - a page load has one of four outcomes (PageOutcomes).                *)
(***************************************************************************)
EXTENDS Naturals, Sequences, FiniteSets, TLC

(***************************************************************************)
(* Bounds of the model.                                                    *)
(***************************************************************************)
\* Largest number of elements of the sitemap document of a whole call.
MaxNodes == 2
\* Largest number of elements of the sitemap document when only discovery
\* and the identifier are looked at (SpecDiscovery).
MaxSitemapNodes == 4
\* Threads of the ThreadPoolExecutor (its default depends on the machine).
PoolSize == 2

(***************************************************************************)
(* Inputs.                                                                 *)
(***************************************************************************)
\* The sitemap URLs a caller passes.
SitemapUrls == {"http://s/sitemap.xml", "http://t/map"}

\* The elements a sitemap document is made of: <loc> below <url> (the
\* standard form), <loc> below another parent (a sitemap index, a bare
\* list), and an element that is not a <loc>.
Elements ==
    { [name |-> "loc",     parent |-> "url",     text |-> "http://s/a"],
      [name |-> "loc",     parent |-> "url",     text |-> "http://s/b"],
      [name |-> "loc",     parent |-> "sitemap", text |-> "http://s/c"],
      [name |-> "loc",     parent |-> "urlset",  text |-> "http://s/d"],
      [name |-> "lastmod", parent |-> "url",     text |-> "2023-01-01"] }

\* Every document of at most max elements, in document order.
Documents(max) == UNION { [1..n -> Elements] : n \in 0..max }

\* The status codes the server answers the sitemap GET with.
StatusCodes == {200, 404, 500}

\* What web_page_loader.load_data(link) does: returns a dict whose "data"
\* is a non-empty list, returns one whose "data" is empty, raises
\* ParserRejectedMarkup, or raises another Exception.
PageOutcomes == {"data", "empty", "rejected", "error"}

\* The fragments of the page at a link (opaque to the loader).
PageData(link) == << <<link, 1>>, <<link, 2>> >>

(***************************************************************************)
(* Values.                                                                 *)
(***************************************************************************)
NoResponse == [status_code |-> 0, text |-> << >>]
NoResult == [returned |-> FALSE, doc_id |-> "", data |-> << >>]
NoPrevious == [returned |-> FALSE, doc_id |-> "", n |-> 0]
\* A Python value a worker returns: a list, or None.
ListValue(items) == [kind |-> "list", items |-> items]
NoneValue == [kind |-> "None", items |-> << >>]
\* Python truthiness of such a value (`if data:`).
Truthy(v) == v.kind = "list" /\ Len(v.items) > 0

VARIABLES
    pc,             \* where the orchestrating thread is in load_data
    sitemap_url,    \* the argument
    served,         \* the document the server holds for sitemap_url
    parseable,      \* whether BeautifulSoup accepts the body the server holds
    response,       \* requests.get(sitemap_url)
    links,          \* the discovered URLs
    doc_id,         \* the identifier computed at line 40
    futures,        \* the submitted futures, in submission order
    finished_futures, \* the futures in the order they finished
    initial,        \* the futures as_completed found finished when it began
    drained,        \* the futures the for loop has consumed, in order
    output,         \* the aggregation list
    log,            \* the logging.error records, in order
    result,         \* the record load_data returned
    raised,         \* the exception load_data propagated ("" for none)
    loaded,         \* what the page loader did for each finished future
    previous        \* what the caller kept of the latest earlier result

VARIABLES
    apps,           \* the REST API's table of apps, a row per save_app
    files,          \* the config files written below configs/, path to content
    last_request    \* the latest REST request and what its handler did

VARIABLES
    es_pc,          \* "none", "ready" once constructed, "failed" when __init__ raised
    es_self,        \* the ElasticsearchDB object: config, client, embedder
    indices,        \* the cluster: index name to the ids of its documents
    es_last         \* the latest method call on the object

VARIABLES
    llm_self,       \* the GPT4All-backed object: its class and self.config.model
    llm_call        \* the running or latest _get_gpt4all_answer call

restVars == << apps, files, last_request >>

esVars == << es_pc, es_self, indices, es_last >>

llmVars == << llm_self, llm_call >>

\* The state of load_data and of its caller.
sitemapVars == << pc, sitemap_url, served, parseable, response, links, doc_id,
                 futures, finished_futures, initial, drained, output, log,
                 result, raised, loaded, previous >>

vars == << sitemapVars, restVars, esVars, llmVars >>

(***************************************************************************)
(* Pure functions of load_data.                                            *)
(***************************************************************************)
\* Mutant: the parent of a <loc> is not looked at.
StrictLinksAnyParent(soup) ==
    LET locs == SelectSeq(soup, LAMBDA e : e.name = "loc")
    IN  [i \in 1..Len(locs) |-> locs[i].text]

\* links = [link.text for link in soup.find_all("loc") if link.parent.name == "url"]
StrictLinks(soup) ==
    LET locs == SelectSeq(soup, LAMBDA e : e.name = "loc" /\ e.parent = "url")
    IN  [i \in 1..Len(locs) |-> locs[i].text]

\* links = [link.text for link in soup.find_all("loc")]
AllLinks(soup) ==
    LET locs == SelectSeq(soup, LAMBDA e : e.name = "loc")
    IN  [i \in 1..Len(locs) |-> locs[i].text]

\* Mutant: no second pass when the strict list is empty.
DiscoverLinksNoFallback(soup) == StrictLinks(soup)

\* Lines 36-38: the strict list, or every <loc> when the strict list is empty.
DiscoverLinks(soup) ==
    IF Len(StrictLinks(soup)) = 0 THEN AllLinks(soup) ELSE StrictLinks(soup)

RECURSIVE Join(_)
\* " ".join(links)
Join(ls) ==
    IF Len(ls) = 0 THEN ""
    ELSE IF Len(ls) = 1 THEN ls[1]
    ELSE ls[1] \o " " \o Join(Tail(ls))

\* hashlib.sha256(s.encode()).hexdigest(), as an injective tag of s.
Sha256Hex(s) == "sha256:" \o s

\* Mutant: the sitemap URL is hashed before the links.
ComputeDocIdUrlFirst(ls, url) == Sha256Hex(url \o Join(ls))

\* Mutant: the sitemap URL is joined to the links like one more link.
ComputeDocIdSeparated(ls, url) == Sha256Hex(Join(ls) \o " " \o url)

\* Line 40.
ComputeDocId(ls, url) == Sha256Hex(Join(ls) \o url)

(***************************************************************************)
(* The worker: the nested load_data(link), lines 42-48.                    *)
(***************************************************************************)
\* What the nested load_data returns for a page outcome: the page's "data",
\* or None after ParserRejectedMarkup was caught (line 48).
WorkerValue(link, outcome) ==
    CASE outcome = "data"  -> ListValue(PageData(link))
      [] outcome = "empty" -> ListValue(<< >>)
      [] OTHER             -> NoneValue

\* The exception that leaves the nested load_data: only ParserRejectedMarkup
\* is caught there (line 46), any other one is stored in the future.
WorkerException(outcome) == IF outcome = "error" THEN "Exception" ELSE ""

\* The records the nested load_data logs (line 47).
WorkerLog(link, outcome) ==
    IF outcome = "rejected"
    THEN << [msg |-> "Failed to parse", link |-> link] >>
    ELSE << >>

(***************************************************************************)
(* The orchestrator's loop body, lines 53-59.                              *)
(***************************************************************************)
\* Mutant: output = data in place of output.extend(data).
ExtendOverwrite(out, f) ==
    IF f.exception = "" /\ Truthy(f.value) THEN f.value.items ELSE out

\* output after the body ran for future f.
Extend(out, f) ==
    IF f.exception = "" /\ Truthy(f.value) THEN out \o f.value.items ELSE out

\* Mutant: line 59 is missing, the exception is dropped silently.
CollectLogSilent(f) == << >>

\* The records the body logs for future f (line 59).
CollectLog(f) ==
    IF f.exception # ""
    THEN << [msg |-> "Error loading page", link |-> f.link] >>
    ELSE << >>

Range(s) == { s[i] : i \in DOMAIN s }

Running == { i \in DOMAIN futures : futures[i].state = "RUNNING" }
Finished == { i \in DOMAIN futures : futures[i].state = "FINISHED" }

\* Mutant: the futures that were finished before the loop began are never
\* yielded.
YieldableLaterOnly ==
    LET later == SelectSeq(finished_futures,
                           LAMBDA i : i \notin initial /\ i \notin Range(drained))
    IN  IF Len(later) > 0 THEN {later[1]} ELSE {}

\* concurrent.futures.as_completed: the futures that were finished when it
\* began come first, in no particular order (it keeps them in a set); the
\* others follow in the order they finish.
Yieldable ==
    LET first == initial \ Range(drained)
        later == SelectSeq(finished_futures,
                           LAMBDA i : i \notin initial /\ i \notin Range(drained))
    IN  IF first # {} THEN first
        ELSE IF Len(later) > 0 THEN {later[1]} ELSE {}

(***************************************************************************)
(* The state of the other components, which load_data does not touch.      *)
(***************************************************************************)
NoRequest ==
    [endpoint |-> "", app_id |-> "", existed |-> FALSE, failure |-> "",
     kind |-> "", status_code |-> 0, save_app_calls |-> 0, wrote_file |-> FALSE]

\* No REST request was made yet.
RestIdle ==
    /\ apps = << >>
    /\ files = << >>
    /\ last_request = NoRequest

(***************************************************************************)
(* ElasticsearchDB (embedchain/vectordb/elasticsearch_db.py).              *)
(*                                                                         *)
(* One object and the cluster its client talks to.  es_last is the latest  *)
(* method call on the object: the index the call handed to the client and  *)
(* what the call raised.                                                   *)
(***************************************************************************)
\* None, as a config argument.
NoneConfig == [name |-> "None", ES_URL |-> "", collection_name |-> ""]

\* The ElasticsearchDBConfig objects a caller has.
Configs ==
    { [name |-> "c1", ES_URL |-> "http://es1:9200", collection_name |-> "embedchain_store"],
      [name |-> "c2", ES_URL |-> "http://es2:9200", collection_name |-> "docs"] }

ConfigArgs == {NoneConfig} \cup Configs

\* The names set_collection_name is called with.
CollectionNames == {"embedchain_store", "docs", "notes"}

\* self.embedder.vector_dimension, set on the object from outside.
VectorDimensions == {384, 1536}

\* The ids of the documents add is called with.
DocIds == {"d1", "d2"}

\* The operations that hand an index to the client.
EsOperations == {"_initialize", "get", "add", "query", "count", "reset"}

NoCall == [op |-> "", index |-> "", raised |-> "", args |-> << >>]

\* A call that handed `index` to the client.
Called(op, index, exc) ==
    [op |-> op, index |-> index, raised |-> exc, args |-> << >>]

EsIdle ==
    /\ es_pc = "none"
    /\ es_self = [config |-> "None", client |-> "", collection_name |-> "",
                  vector_dimension |-> 0]
    /\ indices = << >>
    /\ es_last = NoCall

(***************************************************************************)
(* The GPT4All answer path (embedchain/llm/gpt4all_llm.py and              *)
(* embedchain/apps/OpenSourceApp.py).                                      *)
(***************************************************************************)
\* The two classes that define _get_gpt4all_answer.
LlmClasses == {"GPT4ALLLlm", "OpenSourceApp"}

\* The model files an instance is built on.
ModelNames == {"orca-mini", "gpt4all-j"}

\* config.model when no model is named: None, which is falsy.
NoModel == ""

Prompts == {"p1", "p2"}

\* The per-call configs: model, system_prompt (None as ""), stream.
CallConfigs ==
    [model : {NoModel} \cup ModelNames, system_prompt : {"", "be brief"},
     stream : BOOLEAN]

NoAnswerCall ==
    [pc |-> "idle", prompt |-> "",
     config |-> [model |-> NoModel, system_prompt |-> "", stream |-> FALSE],
     generated |-> << >>, raised |-> "", response |-> ""]

LlmIdle ==
    /\ llm_self = [cls |-> "", model |-> NoModel]
    /\ llm_call = NoAnswerCall

\* What load_data does not touch.
elsewhere == << restVars, esVars, llmVars >>

\* What the REST handlers do not touch.
notRest == << sitemapVars, esVars, llmVars >>

\* What ElasticsearchDB does not touch.
notEs == << sitemapVars, restVars, llmVars >>

\* What the GPT4All answer path does not touch.
notLlm == << sitemapVars, restVars, esVars >>

ElsewhereIdle == RestIdle /\ EsIdle /\ LlmIdle

(***************************************************************************)
(* The state at the start of a call.                                       *)
(***************************************************************************)
Fresh ==
    /\ pc = "start"
    /\ response = NoResponse
    /\ links = << >>
    /\ doc_id = ""
    /\ futures = << >>
    /\ finished_futures = << >>
    /\ initial = {}
    /\ drained = << >>
    /\ output = << >>
    /\ log = << >>
    /\ result = NoResult
    /\ raised = ""
    /\ loaded = << >>

\* The server holds a body the parser accepts, given as its element tree, or
\* one the parser raises on.
Init ==
    /\ sitemap_url \in SitemapUrls
    /\ \/ served \in Documents(MaxNodes) /\ parseable = TRUE
       \/ served = << >> /\ parseable = FALSE
    /\ previous = NoPrevious
    /\ Fresh
    /\ ElsewhereIdle

(***************************************************************************)
(* The orchestrating thread.                                               *)
(***************************************************************************)
\* Line 32: requests.get, which raises when the server cannot be reached.
Get ==
    /\ pc = "start"
    /\ \/ /\ raised' = "ConnectionError"
          /\ pc' = "raised"
          /\ UNCHANGED response
       \/ /\ \E code \in StatusCodes :
                response' = [status_code |-> code, text |-> served]
          /\ pc' = "raise_for_status"
          /\ UNCHANGED raised
    /\ UNCHANGED << sitemap_url, served, links, doc_id, futures,
                    finished_futures, initial, drained, output, log, result,
                    loaded, previous, parseable, elsewhere >>

\* Mutant: line 33 is missing.
RaiseForStatusIgnored ==
    /\ pc = "raise_for_status"
    /\ pc' = "discover"
    /\ UNCHANGED << sitemap_url, served, response, links, doc_id, futures,
                    finished_futures, initial, drained, output, log, result,
                    raised, loaded, previous, parseable, elsewhere >>

\* Line 33: raise_for_status raises HTTPError for a 4xx or 5xx status.
RaiseForStatus ==
    /\ pc = "raise_for_status"
    /\ IF response.status_code >= 400 /\ response.status_code < 600
       THEN raised' = "HTTPError" /\ pc' = "raised"
       ELSE pc' = "discover" /\ UNCHANGED raised
    /\ UNCHANGED << sitemap_url, served, response, links, doc_id, futures,
                    finished_futures, initial, drained, output, log, result,
                    loaded, previous, parseable, elsewhere >>

\* Mutant: a body the parser raises on is taken for a sitemap without links.
DiscoverSwallowsParseError ==
    /\ pc = "discover"
    /\ links' = DiscoverLinks(response.text)
    /\ pc' = "hash"
    /\ UNCHANGED << sitemap_url, served, response, doc_id, futures,
                    finished_futures, initial, drained, output, log, result,
                    raised, loaded, previous, parseable, elsewhere >>

\* Lines 35-38.  response.text is given as the element tree it parses to;
\* line 35 is in no try, so what BeautifulSoup raises leaves load_data.
Discover ==
    /\ pc = "discover"
    /\ IF parseable
       THEN /\ links' = DiscoverLinks(response.text)
            /\ pc' = "hash"
            /\ UNCHANGED raised
       ELSE /\ raised' = "ParserRejectedMarkup"
            /\ pc' = "raised"
            /\ UNCHANGED links
    /\ UNCHANGED << sitemap_url, served, response, doc_id, futures,
                    finished_futures, initial, drained, output, log, result,
                    loaded, previous, parseable, elsewhere >>

\* Line 40.
Hash ==
    /\ pc = "hash"
    /\ doc_id' = ComputeDocId(links, sitemap_url)
    /\ pc' = "submit"
    /\ UNCHANGED << sitemap_url, served, response, links, futures,
                    finished_futures, initial, drained, output, log, result,
                    raised, loaded, previous, parseable, elsewhere >>

\* Line 51: one executor.submit per link, in the order of links.
Submit ==
    /\ pc = "submit"
    /\ Len(futures) < Len(links)
    /\ futures' = Append(futures, [link      |-> links[Len(futures) + 1],
                                   state     |-> "PENDING",
                                   value     |-> NoneValue,
                                   exception |-> ""])
    /\ UNCHANGED << pc, sitemap_url, served, response, links, doc_id,
                    finished_futures, initial, drained, output, log, result,
                    raised, loaded, previous, parseable, elsewhere >>

\* Mutant: the loop begins as soon as one link is submitted, and the other
\* links are never submitted.
AsCompletedEarly ==
    /\ pc = "submit"
    /\ Len(futures) >= 1 \/ Len(links) = 0
    /\ initial' = Finished
    /\ pc' = "collect"
    /\ UNCHANGED << sitemap_url, served, response, links, doc_id, futures,
                    finished_futures, drained, output, log, result, raised,
                    loaded, previous, parseable, elsewhere >>

\* Line 52: the for loop asks as_completed for its first future.
AsCompleted ==
    /\ pc = "submit"
    /\ Len(futures) = Len(links)
    /\ initial' = Finished
    /\ pc' = "collect"
    /\ UNCHANGED << sitemap_url, served, response, links, doc_id, futures,
                    finished_futures, drained, output, log, result, raised,
                    loaded, previous, parseable, elsewhere >>

\* Mutant: future.result() is outside any try, so a stored exception leaves
\* load_data.
CollectUncaught ==
    /\ pc = "collect"
    /\ \E i \in Yieldable :
          /\ drained' = Append(drained, i)
          /\ IF futures[i].exception # ""
             THEN /\ pc' = "raised"
                  /\ raised' = futures[i].exception
                  /\ UNCHANGED << output, log >>
             ELSE /\ output' = Extend(output, futures[i])
                  /\ log' = log \o CollectLog(futures[i])
                  /\ UNCHANGED << pc, raised >>
    /\ UNCHANGED << sitemap_url, served, response, links, doc_id, futures,
                    finished_futures, initial, result, loaded, previous, parseable, elsewhere >>

\* Lines 52-59: one iteration of the for loop.
Collect ==
    /\ pc = "collect"
    /\ \E i \in Yieldable :
          /\ output' = Extend(output, futures[i])
          /\ log' = log \o CollectLog(futures[i])
          /\ drained' = Append(drained, i)
    /\ UNCHANGED << pc, sitemap_url, served, response, links, doc_id, futures,
                    finished_futures, initial, result, raised, loaded,
                    previous, parseable, elsewhere >>

\* Mutant: the loop stops when no future is ready and the executor is shut
\* down without waiting (shutdown(wait=False)).
ReturnEarly ==
    /\ pc = "collect"
    /\ Yieldable = {}
    /\ result' = [returned |-> TRUE, doc_id |-> doc_id, data |-> output]
    /\ pc' = "done"
    /\ UNCHANGED << sitemap_url, served, response, links, doc_id, futures,
                    finished_futures, initial, drained, output, log, raised,
                    loaded, previous, parseable, elsewhere >>

\* Mutant: the identifier is computed at the end, from the links whose page
\* gave a list.
ReturnRecomputed ==
    /\ pc = "collect"
    /\ Len(drained) = Len(futures)
    /\ Running = {}
    /\ LET ok == SelectSeq(futures, LAMBDA f : f.exception = "" /\ f.value.kind = "list")
           loadedLinks == [i \in 1..Len(ok) |-> ok[i].link]
       IN  result' = [returned |-> TRUE,
                      doc_id   |-> ComputeDocId(loadedLinks, sitemap_url),
                      data     |-> output]
    /\ pc' = "done"
    /\ UNCHANGED << sitemap_url, served, response, links, doc_id, futures,
                    finished_futures, initial, drained, output, log, raised,
                    loaded, previous, parseable, elsewhere >>

\* Lines 52, 50 and 61: as_completed is exhausted, the with block shuts the
\* executor down (shutdown(wait=True) joins the workers) and the record is
\* returned.
Return ==
    /\ pc = "collect"
    /\ Len(drained) = Len(futures)
    /\ Running = {}
    /\ result' = [returned |-> TRUE, doc_id |-> doc_id, data |-> output]
    /\ pc' = "done"
    /\ UNCHANGED << sitemap_url, served, response, links, doc_id, futures,
                    finished_futures, initial, drained, output, log, raised,
                    loaded, previous, parseable, elsewhere >>

(***************************************************************************)
(* The workers of the pool.                                                *)
(***************************************************************************)
\* A pool thread takes the oldest queued work item.
WorkerStart(i) ==
    /\ futures[i].state = "PENDING"
    /\ \A j \in 1..(i - 1) : futures[j].state # "PENDING"
    /\ Cardinality(Running) < PoolSize
    /\ futures' = [futures EXCEPT ![i].state = "RUNNING"]
    /\ UNCHANGED << pc, sitemap_url, served, response, links, doc_id,
                    finished_futures, initial, drained, output, log, result,
                    raised, loaded, previous, parseable, elsewhere >>

\* Mutant: the worker appends its page's data to output itself.
WorkerFinishAppends(i) ==
    /\ futures[i].state = "RUNNING"
    /\ \E outcome \in PageOutcomes :
          /\ futures' = [futures EXCEPT
                ![i].state = "FINISHED",
                ![i].value = WorkerValue(futures[i].link, outcome),
                ![i].exception = WorkerException(outcome)]
          /\ log' = log \o WorkerLog(futures[i].link, outcome)
          /\ loaded' = loaded @@ (i :> outcome)
          /\ output' = output \o WorkerValue(futures[i].link, outcome).items
    /\ finished_futures' = Append(finished_futures, i)
    /\ UNCHANGED << pc, sitemap_url, served, response, links, doc_id,
                    initial, drained, result, raised, previous, parseable, elsewhere >>

\* Lines 42-48 run to their end and the future is set.
WorkerFinish(i) ==
    /\ futures[i].state = "RUNNING"
    /\ \E outcome \in PageOutcomes :
          /\ futures' = [futures EXCEPT
                ![i].state = "FINISHED",
                ![i].value = WorkerValue(futures[i].link, outcome),
                ![i].exception = WorkerException(outcome)]
          /\ log' = log \o WorkerLog(futures[i].link, outcome)
          /\ loaded' = loaded @@ (i :> outcome)
    /\ finished_futures' = Append(finished_futures, i)
    /\ UNCHANGED << pc, sitemap_url, served, response, links, doc_id,
                    initial, drained, output, result, raised, previous, parseable, elsewhere >>

(***************************************************************************)
(* The caller.                                                             *)
(***************************************************************************)
\* The caller calls load_data again, with the same URL, while the server
\* still holds the same document; of the result it was given it keeps the
\* identifier and the number of fragments.
CallAgain ==
    /\ pc \in {"done", "raised"}
    /\ previous' = IF result.returned
                   THEN [returned |-> TRUE, doc_id |-> result.doc_id,
                         n |-> Len(result.data)]
                   ELSE previous
    /\ pc' = "start"
    /\ response' = NoResponse
    /\ links' = << >>
    /\ doc_id' = ""
    /\ futures' = << >>
    /\ finished_futures' = << >>
    /\ initial' = {}
    /\ drained' = << >>
    /\ output' = << >>
    /\ log' = << >>
    /\ result' = NoResult
    /\ raised' = ""
    /\ loaded' = << >>
    /\ UNCHANGED << sitemap_url, served, parseable, elsewhere >>

Next ==
    \/ Get
    \/ RaiseForStatus
    \/ Discover
    \/ Hash
    \/ Submit
    \/ AsCompleted
    \/ Collect
    \/ Return
    \/ \E i \in DOMAIN futures : WorkerStart(i)
    \/ \E i \in DOMAIN futures : WorkerFinish(i)

Spec == Init /\ [][Next]_vars

\* Repeated calls on the same sitemap.
NextRepeat == Next \/ CallAgain

SpecRepeat == Init /\ [][NextRepeat]_vars

\* Discovery and the identifier alone (lines 32-40), on larger documents.
InitDiscovery ==
    /\ sitemap_url \in SitemapUrls
    /\ \/ served \in Documents(MaxSitemapNodes) /\ parseable = TRUE
       \/ served = << >> /\ parseable = FALSE
    /\ previous = NoPrevious
    /\ Fresh
    /\ ElsewhereIdle

NextDiscovery ==
    \/ Get
    \/ RaiseForStatus
    \/ Discover
    \/ Hash

SpecDiscovery == InitDiscovery /\ [][NextDiscovery]_vars

\* One call whose threads all keep running: the calling thread takes its next
\* step when it can, a pool thread takes a queued work item when it is idle,
\* and every page load that was started returns or raises.
Orchestrator ==
    \/ Get
    \/ RaiseForStatus
    \/ Discover
    \/ Hash
    \/ Submit
    \/ AsCompleted
    \/ Collect
    \/ Return

SpecFair ==
    /\ Spec
    /\ WF_vars(Orchestrator)
    /\ WF_vars(\E i \in DOMAIN futures : WorkerStart(i))
    /\ WF_vars(\E i \in DOMAIN futures : WorkerFinish(i))

(***************************************************************************)
(* The REST API (examples/rest-api/main.py).                               *)
(*                                                                         *)
(* A handler is one action: it is an async function with no await between  *)
(* its look-up of the app and its last statement.  What the handler did is *)
(* kept in last_request: the response it returned, the HTTPException it    *)
(* raised, or None when it fell off its end.                               *)
(***************************************************************************)
\* The app ids requests name.
AppIds == {"a", "b"}

\* The files uploaded to /create/yaml: YAML that names an app id, YAML that
\* names none, and text yaml.safe_load raises YAMLError on.
Uploads ==
    { [yaml |-> "valid", id |-> i, text |-> t] : i \in AppIds, t \in {"v1", "v2"} }
    \cup { [yaml |-> "no_id",   id |-> "", text |-> "v1"],
           [yaml |-> "invalid", id |-> "", text |-> ":"] }

\* The handlers that act on an existing app.
ActEndpoints == {"datasources", "add", "query", "chat", "deploy"}

\* What App.from_config and the App's method do in a handler: return, raise a
\* ValueError that names OPENAI_API_KEY or OPENAI_ORGANIZATION, raise a
\* ValueError with another message, raise another Exception.
AppBehaviours == {"ok", "ValueError_key", "ValueError_other", "Exception"}

\* services.get_app: the row of the app, or None.
GetApp(table, app_id) ==
    LET rows == SelectSeq(table, LAMBDA r : r.app_id = app_id)
    IN  IF Len(rows) = 0 THEN [found |-> FALSE, config |-> ""]
        ELSE [found |-> TRUE, config |-> rows[1].config]

\* services.save_app: one more row.
SaveApp(table, app_id, yaml_path) ==
    Append(table, [app_id |-> app_id, config |-> yaml_path])

\* services.remove_app: the rows of the app are gone.
RemoveApp(table, app_id) == SelectSeq(table, LAMBDA r : r.app_id # app_id)

\* Line 114.
YamlPath(app_id) == "configs/" \o app_id \o ".yaml"

\* What a handler did.
Responded(endpoint, app_id, existed) ==
    [endpoint |-> endpoint, app_id |-> app_id, existed |-> existed,
     failure |-> "", kind |-> "response", status_code |-> 200,
     save_app_calls |-> 0, wrote_file |-> FALSE]
\* raise HTTPException(detail=..., status_code=400)
Raised400(endpoint, app_id, existed, failure) ==
    [endpoint |-> endpoint, app_id |-> app_id, existed |-> existed,
     failure |-> failure, kind |-> "HTTPException", status_code |-> 400,
     save_app_calls |-> 0, wrote_file |-> FALSE]
\* The handler ended without a return statement: it gave None and chose no
\* status.
ReturnedNone(endpoint, app_id, existed, failure) ==
    [endpoint |-> endpoint, app_id |-> app_id, existed |-> existed,
     failure |-> failure, kind |-> "None", status_code |-> 0,
     save_app_calls |-> 0, wrote_file |-> FALSE]

\* Mutant: /create without the look-up of line 84.
CreateDefaultUnchecked ==
    \E app_id \in AppIds :
        /\ apps' = SaveApp(apps, app_id, "default.yaml")
        /\ last_request' =
              [Responded("create", app_id, GetApp(apps, app_id).found)
                  EXCEPT !.save_app_calls = 1]
        /\ UNCHANGED << files, notRest >>

\* POST /create, lines 74-93.
CreateDefault ==
    \E app_id \in AppIds :
        LET existed == GetApp(apps, app_id).found
        IN  IF existed
            THEN \* line 85, caught at line 92 and raised again at line 93
                 /\ last_request' = Raised400("create", app_id, TRUE, "exists")
                 /\ UNCHANGED << apps, files, notRest >>
            ELSE /\ apps' = SaveApp(apps, app_id, "default.yaml")
                 /\ last_request' =
                       [Responded("create", app_id, FALSE) EXCEPT !.save_app_calls = 1]
                 /\ UNCHANGED << files, notRest >>

\* POST /create/yaml, lines 97-125.
CreateYaml ==
    \E upload \in Uploads :
        LET existed == upload.yaml = "valid" /\ GetApp(apps, upload.id).found
        IN  CASE upload.yaml = "invalid" ->
                 \* YAMLError, lines 120-121, caught at line 124
                 /\ last_request' = Raised400("create_yaml", "", FALSE, "YAMLError")
                 /\ UNCHANGED << apps, files, notRest >>
              [] upload.yaml = "no_id" ->
                 \* line 109, caught at line 124
                 /\ last_request' = Raised400("create_yaml", "", FALSE, "no_id")
                 /\ UNCHANGED << apps, files, notRest >>
              [] upload.yaml = "valid" /\ existed ->
                 \* line 112, caught at line 124
                 /\ last_request' = Raised400("create_yaml", upload.id, TRUE, "exists")
                 /\ UNCHANGED << apps, files, notRest >>
              [] OTHER ->
                 /\ files' = (YamlPath(upload.id) :> upload.text) @@ files
                 /\ apps' = SaveApp(apps, upload.id, YamlPath(upload.id))
                 /\ last_request' =
                       [Responded("create_yaml", upload.id, FALSE)
                           EXCEPT !.save_app_calls = 1, !.wrote_file = TRUE]
                 /\ UNCHANGED notRest

\* What the except clauses shared by the five handlers make of what the try
\* block raised (lines 153-160, 191-198, 228-235, 265-272, 307-314).
ActOutcome(endpoint, app_id, behaviour) ==
    CASE behaviour = "ok" -> Responded(endpoint, app_id, TRUE)
      [] behaviour = "ValueError_key" -> Raised400(endpoint, app_id, TRUE, behaviour)
      [] behaviour = "ValueError_other" -> ReturnedNone(endpoint, app_id, TRUE, behaviour)
      [] OTHER -> Raised400(endpoint, app_id, TRUE, behaviour)

\* GET /{app_id}/datasources and POST /{app_id}/add, /query, /chat, /deploy.
ActOnApp ==
    \E endpoint \in ActEndpoints, app_id \in AppIds, behaviour \in AppBehaviours :
        /\ last_request' =
              IF ~GetApp(apps, app_id).found
              THEN \* the HTTPException of the try block is no ValueError: it is
                   \* caught by `except Exception` and raised again with 400
                   Raised400(endpoint, app_id, FALSE, "unknown_app")
              ELSE ActOutcome(endpoint, app_id, behaviour)
        /\ UNCHANGED << apps, files, notRest >>

\* DELETE /{app_id}/delete, lines 322-347.
DeleteApp ==
    \E app_id \in AppIds, behaviour \in AppBehaviours :
        LET existed == GetApp(apps, app_id).found
        IN  IF ~existed
            THEN /\ last_request' = Raised400("delete", app_id, FALSE, "unknown_app")
                 /\ UNCHANGED << apps, files, notRest >>
            ELSE IF behaviour # "ok"
            THEN \* App.from_config or app.db.reset raised: line 346
                 /\ last_request' = Raised400("delete", app_id, TRUE, behaviour)
                 /\ UNCHANGED << apps, files, notRest >>
            ELSE /\ apps' = RemoveApp(apps, app_id)
                 /\ last_request' = Responded("delete", app_id, TRUE)
                 /\ UNCHANGED << files, notRest >>

\* load_data is not running.
SitemapIdle ==
    /\ sitemap_url = "http://s/sitemap.xml"
    /\ served = << >>
    /\ parseable = TRUE
    /\ previous = NoPrevious
    /\ Fresh

InitRest == SitemapIdle /\ ElsewhereIdle

NextRest ==
    \/ CreateDefault
    \/ CreateYaml
    \/ ActOnApp
    \/ DeleteApp

SpecRest == InitRest /\ [][NextRest]_vars

(***************************************************************************)
(* ElasticsearchDB: the methods.                                           *)
(***************************************************************************)
\* Lines 139-142.
GetIndex(self) ==
    self.collection_name \o "_" \o ToString(self.vector_dimension)

\* Line 31: config or es_config.
ConfigOr(config, es_config) == IF config # NoneConfig THEN config ELSE es_config

\* ElasticsearchDB(config, es_config), lines 18-35, and the embedder set on the
\* object afterwards.
Construct ==
    \E config \in ConfigArgs, es_config \in ConfigArgs, dim \in VectorDimensions :
        /\ es_pc = "none"
        /\ IF config = NoneConfig /\ es_config = NoneConfig
           THEN \* line 30
                /\ es_pc' = "failed"
                /\ es_last' = [op |-> "__init__", index |-> "", raised |-> "ValueError",
                               args |-> << config, es_config >>]
                /\ UNCHANGED es_self
           ELSE IF es_config = NoneConfig
           THEN \* line 32: None has no attribute ES_URL
                /\ es_pc' = "failed"
                /\ es_self' = [es_self EXCEPT
                                  !.config = ConfigOr(config, es_config).name,
                                  !.collection_name =
                                      ConfigOr(config, es_config).collection_name]
                /\ es_last' = [op |-> "__init__", index |-> "", raised |-> "AttributeError",
                               args |-> << config, es_config >>]
           ELSE /\ es_pc' = "ready"
                /\ es_self' = [config |-> ConfigOr(config, es_config).name,
                               client |-> es_config.ES_URL,
                               collection_name |->
                                   ConfigOr(config, es_config).collection_name,
                               vector_dimension |-> dim]
                /\ es_last' = [op |-> "__init__", index |-> "", raised |-> "",
                               args |-> << config, es_config >>]
        /\ UNCHANGED << indices, notEs >>

\* Lines 37-53.
Initialize ==
    /\ es_pc = "ready"
    /\ indices' = IF GetIndex(es_self) \in DOMAIN indices THEN indices
                  ELSE (GetIndex(es_self) :> {}) @@ indices
    /\ es_last' = Called("_initialize", GetIndex(es_self), "")
    /\ UNCHANGED << es_pc, es_self, notEs >>

\* Lines 61-74: line 71 reads self.es_index, an attribute the class assigns
\* nowhere.
EsGet ==
    /\ es_pc = "ready"
    /\ es_last' = Called("get", "", "AttributeError")
    /\ UNCHANGED << es_pc, es_self, indices, notEs >>

\* Lines 76-95: bulk creates the index of a document when it is missing.
EsAdd ==
    \E ids \in SUBSET DocIds \ {{}} :
        /\ es_pc = "ready"
        /\ indices' =
              (GetIndex(es_self) :>
                  (IF GetIndex(es_self) \in DOMAIN indices
                   THEN indices[GetIndex(es_self)] ELSE {}) \cup ids) @@ indices
        /\ es_last' = Called("add", GetIndex(es_self), "")
        /\ UNCHANGED << es_pc, es_self, notEs >>

\* What a search or a count of the object's index comes to: the cluster
\* refuses it when it has no such index.
Searched(op, self, cluster) ==
    Called(op, GetIndex(self),
           IF GetIndex(self) \in DOMAIN cluster THEN "" ELSE "NotFoundError")

\* Lines 97-122.
EsQuery ==
    /\ es_pc = "ready"
    /\ es_last' = Searched("query", es_self, indices)
    /\ UNCHANGED << es_pc, es_self, indices, notEs >>

\* Lines 127-131.
EsCount ==
    /\ es_pc = "ready"
    /\ es_last' = Searched("count", es_self, indices)
    /\ UNCHANGED << es_pc, es_self, indices, notEs >>

\* Lines 133-137.
EsReset ==
    /\ es_pc = "ready"
    /\ indices' = [i \in DOMAIN indices \ {GetIndex(es_self)} |-> indices[i]]
    /\ es_last' = Called("reset", GetIndex(es_self), "")
    /\ UNCHANGED << es_pc, es_self, notEs >>

\* Lines 124-125.
SetCollectionName ==
    \E name \in CollectionNames :
        /\ es_pc = "ready"
        /\ es_self' = [es_self EXCEPT !.collection_name = name]
        /\ es_last' = Called("set_collection_name", "", "")
        /\ UNCHANGED << es_pc, indices, notEs >>

InitEs == SitemapIdle /\ ElsewhereIdle

NextEs ==
    \/ Construct
    \/ Initialize
    \/ EsGet
    \/ EsAdd
    \/ EsQuery
    \/ EsCount
    \/ EsReset
    \/ SetCollectionName

SpecEs == InitEs /\ [][NextEs]_vars

(***************************************************************************)
(* The GPT4All answer path: the steps of _get_gpt4all_answer.              *)
(***************************************************************************)
\* GPT4ALLLlm(config) and OpenSourceApp(config): self.instance is
\* GPT4All(config.model) and self.config is config.
LlmConstruct ==
    \E cls \in LlmClasses, model \in ModelNames :
        /\ llm_self.cls = ""
        /\ llm_self' = [cls |-> cls, model |-> model]
        /\ UNCHANGED << llm_call, notLlm >>

\* get_llm_model_answer(prompt, config) calls _get_gpt4all_answer.
GetLlmModelAnswer ==
    \E prompt \in Prompts, config \in CallConfigs :
        /\ llm_self.cls # ""
        /\ llm_call.pc \in {"idle", "returned", "raised"}
        /\ llm_call' = [pc |-> "check_model", prompt |-> prompt, config |-> config,
                        generated |-> << >>, raised |-> "", response |-> ""]
        /\ UNCHANGED << llm_self, notLlm >>

\* Mutant: the condition of the first if never holds.
ModelMismatchNever(config, self) == FALSE

\* The condition of gpt4all_llm.py line 27 and OpenSourceApp.py line 62.
ModelMismatch(config, self) ==
    config.model # NoModel /\ config.model # self.model

\* gpt4all_llm.py lines 27-30, OpenSourceApp.py lines 62-65.
CheckModel ==
    /\ llm_call.pc = "check_model"
    /\ llm_call' =
          IF ModelMismatch(llm_call.config, llm_self)
          THEN [llm_call EXCEPT !.pc = "raised", !.raised = "RuntimeError"]
          ELSE [llm_call EXCEPT !.pc = "check_system_prompt"]
    /\ UNCHANGED << llm_self, notLlm >>

\* gpt4all_llm.py lines 32-33, OpenSourceApp.py lines 67-68.
CheckSystemPrompt ==
    /\ llm_call.pc = "check_system_prompt"
    /\ llm_call' =
          IF llm_call.config.system_prompt # ""
          THEN [llm_call EXCEPT !.pc = "raised", !.raised = "ValueError"]
          ELSE [llm_call EXCEPT !.pc = "generate"]
    /\ UNCHANGED << llm_self, notLlm >>

\* gpt4all_llm.py lines 35-42, OpenSourceApp.py lines 70-77: self.instance is
\* the model the object was built on.
Generate ==
    /\ llm_call.pc = "generate"
    /\ llm_call' =
          [llm_call EXCEPT
              !.pc = "returned",
              !.generated = Append(@, [model |-> llm_self.model,
                                       prompt |-> llm_call.prompt,
                                       streaming |-> llm_call.config.stream]),
              !.response = llm_self.model \o ":" \o llm_call.prompt]
    /\ UNCHANGED << llm_self, notLlm >>

InitLlm == SitemapIdle /\ ElsewhereIdle

NextLlm ==
    \/ LlmConstruct
    \/ GetLlmModelAnswer
    \/ CheckModel
    \/ CheckSystemPrompt
    \/ Generate

SpecLlm == InitLlm /\ [][NextLlm]_vars

(***************************************************************************)
(* What the properties are stated with.                                    *)
(***************************************************************************)
\* The positions of the <loc> elements of a document, and of those whose
\* parent is a <url>.
Locs(doc) == { j \in DOMAIN doc : doc[j].name = "loc" }
UrlLocs(doc) == { j \in Locs(doc) : doc[j].parent = "url" }

\* The i-th smallest member of a set of positions.
Nth(S, i) == CHOOSE j \in S : Cardinality({ k \in S : k < j }) = i - 1

\* ls is the text of the elements of doc at the positions S, in document
\* order, one entry per position.
IsTextsOf(ls, doc, S) ==
    /\ Len(ls) = Cardinality(S)
    /\ \A i \in DOMAIN ls : ls[i] = doc[Nth(S, i)].text

\* The links joined by single spaces, built from the left.
SpaceJoined(ls) ==
    LET acc[i \in 0..Len(ls)] ==
            IF i = 0 THEN ""
            ELSE IF i = 1 THEN ls[1]
            ELSE acc[i - 1] \o " " \o ls[i]
    IN  acc[Len(ls)]

\* The orchestrator is past line 38 / past line 40.
Discovered == pc \in {"hash", "submit", "collect", "done"}
Identified == pc \in {"submit", "collect", "done"}

\* The fragments the page of finished future i gave: none when the load
\* raised or the page was empty.
FragmentsOf(i) ==
    IF loaded[i] = "data" THEN PageData(futures[i].link) ELSE << >>

Count(seq, x) == Cardinality({ k \in DOMAIN seq : seq[k] = x })

RECURSIVE ConcatFragments(_)
\* The fragments of the futures of d, one future after the other.
ConcatFragments(d) ==
    IF Len(d) = 0 THEN << >>
    ELSE FragmentsOf(d[1]) \o ConcatFragments(Tail(d))

\* The position of future i in a sequence of futures without repetition.
IndexIn(seq, i) == CHOOSE k \in DOMAIN seq : seq[k] = i

(***************************************************************************)
(* The properties.                                                         *)
(***************************************************************************)
\* C1: a call never fails because of a page: a call that raised did so with
\* the error of the sitemap's GET or parse and before any page was submitted, and a call that
\* returned holds each fragment of each page that did not fail exactly as
\* often as such pages hold it, and no other fragment.
C1_PageFailuresIsolated ==
    /\ pc = "raised" =>
          /\ futures = << >>
          /\ raised \in {"ConnectionError", "HTTPError", "ParserRejectedMarkup"}
    /\ pc = "done" =>
          /\ result.returned
          /\ raised = ""
          /\ \A x \in Range(result.data)
                      \cup UNION { Range(PageData(links[i])) : i \in DOMAIN links } :
                Count(result.data, x) =
                    Cardinality({ i \in DOMAIN futures : Count(FragmentsOf(i), x) > 0 })

\* One of two pages raised an error other than ParserRejectedMarkup, and the
\* call returned the other page's fragments.
C1_Witness ==
    /\ pc = "done"
    /\ Len(futures) = 2
    /\ loaded[1] = "error"
    /\ loaded[2] = "data"
    /\ result.data = PageData(links[2])

\* C2: a call that returns after an earlier call on the same sitemap URL and
\* the same served document returned gives the doc_id the earlier call gave,
\* whatever the pages did in either call and in whatever order.
C2_DocIdRepeats ==
    (pc = "done" /\ previous.returned) => result.doc_id = previous.doc_id

\* Two calls on a sitemap of two links returned different numbers of
\* fragments and the same doc_id.
C2_Witness ==
    /\ pc = "done"
    /\ previous.returned
    /\ Len(links) = 2
    /\ previous.n # Len(result.data)
    /\ previous.doc_id = result.doc_id

\* C3: from line 40 on, and so whenever a future exists, doc_id is the hash
\* of the links joined by single spaces followed at once by the sitemap URL,
\* the links are those discovered, and the returned doc_id is that value.
C3_DocIdBeforeFetch ==
    /\ (Identified \/ futures # << >>) =>
          /\ doc_id = Sha256Hex(SpaceJoined(links) \o sitemap_url)
          /\ IsTextsOf(links, served,
                       IF UrlLocs(served) = {} THEN Locs(served) ELSE UrlLocs(served))
    /\ pc = "done" => result.doc_id = doc_id

\* The example of the specification, on this model's URLs: page a loads, page
\* b is rejected by the parser.
C3_Witness ==
    /\ pc = "done"
    /\ sitemap_url = "http://s/sitemap.xml"
    /\ links = << "http://s/a", "http://s/b" >>
    /\ loaded[1] = "data"
    /\ loaded[2] = "rejected"
    /\ result.doc_id = "sha256:http://s/a http://s/bhttp://s/sitemap.xml"

C5_JoinAll ==
    pc = "done" =>
        /\ Len(futures) = Len(links)
        /\ \A i \in DOMAIN futures : futures[i].state = "FINISHED"
        /\ Range(drained) = DOMAIN futures
        /\ result.data = output

\* A call with two pages returned both pages' fragments.
C5_Witness ==
    /\ pc = "done"
    /\ Len(futures) = 2
    /\ Len(result.data) = 4

\* C6: output is the fragments of the drained futures, future by future in
\* drain order, a page that raised, was rejected or was empty giving none;
\* no future is drained twice; the futures that finished after the loop
\* began are drained in the order they finished; the returned data is the
\* output after every future was drained.
C6_DrainOrder ==
    /\ output = ConcatFragments(drained)
    /\ \A a, b \in DOMAIN drained :
          /\ a # b => drained[a] # drained[b]
          /\ (a < b /\ drained[a] \notin initial /\ drained[b] \notin initial) =>
                IndexIn(finished_futures, drained[a]) < IndexIn(finished_futures, drained[b])
    /\ pc = "done" =>
          /\ Len(drained) = Len(futures)
          /\ result.data = ConcatFragments(drained)

\* Two different pages loaded, the second submitted was drained first, and
\* its fragments come first in the returned data.
C6_Witness ==
    /\ pc = "done"
    /\ drained = << 2, 1 >>
    /\ links[1] # links[2]
    /\ loaded[1] = "data"
    /\ loaded[2] = "data"
    /\ result.data = PageData(links[2]) \o PageData(links[1])

\* C7: when some <loc> of the served sitemap has a <url> parent, the
\* discovered links are the texts of exactly the <loc> elements with a <url>
\* parent, in document order, one per element.
C7_StrictDiscovery ==
    (Discovered /\ UrlLocs(served) # {}) => IsTextsOf(links, served, UrlLocs(served))

\* A sitemap with the same <url><loc> twice, another <url><loc> and a <loc>
\* below another parent.
C7_Witness ==
    /\ Discovered
    /\ Len(served) = 4
    /\ Locs(served) \ UrlLocs(served) # {}
    /\ links = << "http://s/b", "http://s/a", "http://s/b" >>

\* C8: when no <loc> of the served sitemap has a <url> parent, the discovered
\* links are the texts of all <loc> elements in document order; when one
\* has, there are as many links as <loc> elements with a <url> parent.
C8_FallbackDiscovery ==
    Discovered =>
        /\ UrlLocs(served) = {} => IsTextsOf(links, served, Locs(served))
        /\ UrlLocs(served) # {} => Len(links) = Cardinality(UrlLocs(served))

\* A sitemap index: three <loc> below parents other than <url>, and an
\* element that is not a <loc>.
C8_Witness ==
    /\ Discovered
    /\ Len(served) = 4
    /\ UrlLocs(served) = {}
    /\ links = << "http://s/d", "http://s/c", "http://s/d" >>

\* C9: on a parsed sitemap without <loc> that the server answers with 200,
\* the call does not raise and submits no future, and what it returns is
\* data = [] and the hash of the sitemap URL alone.
C9_EmptySitemap ==
    (parseable /\ Locs(served) = {} /\ response.status_code = 200) =>
        /\ pc # "raised"
        /\ futures = << >>
        /\ pc = "done" =>
              /\ result.returned
              /\ result.data = << >>
              /\ result.doc_id = Sha256Hex("" \o sitemap_url)

\* A sitemap holding only an element that is not a <loc> was loaded.
C9_Witness ==
    /\ pc = "done"
    /\ Len(served) > 0
    /\ Locs(served) = {}
    /\ result.returned

\* C10: every step that changes output is one iteration of the
\* orchestrator's loop: it drains one finished future, appends that future's
\* items and changes no future.
C10_OnlyOrchestratorAppends ==
    [][output' # output =>
          /\ pc = "collect"
          /\ pc' = "collect"
          /\ futures' = futures
          /\ finished_futures' = finished_futures
          /\ Len(drained') = Len(drained) + 1
          /\ SubSeq(drained', 1, Len(drained)) = drained
          /\ LET f == futures[drained'[Len(drained')]]
             IN  /\ f.state = "FINISHED"
                 /\ output' = output \o f.value.items]_vars

\* A page's fragments are in output while a worker is still loading a page.
C10_Witness ==
    /\ output # << >>
    /\ Running # {}

\* C11: the futures are the links, one future per link occurrence and in the
\* order of the links; once the loop has begun every link has its future;
\* every future the loop has consumed was finished.
C11_FireAndCollect ==
    /\ Len(futures) <= Len(links)
    /\ \A i \in DOMAIN futures : futures[i].link = links[i]
    /\ (pc \in {"collect", "done"} \/ drained # << >>) => Len(futures) = Len(links)
    /\ \A k \in DOMAIN drained : futures[drained[k]].state = "FINISHED"

\* The same link was discovered twice, both occurrences were submitted, and
\* the loop has consumed one result.
C11_Witness ==
    /\ pc = "collect"
    /\ Len(links) = 2
    /\ links[1] = links[2]
    /\ Len(futures) = 2
    /\ Len(drained) = 1

C13_Termination ==
    /\ Discovered ~> (pc = "done")
    /\ [][/\ \A i \in DOMAIN futures :
                futures'[i].state # futures[i].state =>
                    << futures[i].state, futures'[i].state >> \in
                        { << "PENDING", "RUNNING" >>, << "RUNNING", "FINISHED" >> }
          /\ (\E i \in DOMAIN futures : futures[i].state # "FINISHED") => pc' # "done"]_vars

\* The calling thread waits in the loop, nothing is ready, a page is loading.
C13_Witness ==
    /\ pc = "collect"
    /\ Yieldable = {}
    /\ Running # {}

\* C14: for every link, the records "Failed to parse" naming it are as many
\* as its futures that ended with ParserRejectedMarkup, the records "Error
\* loading page" naming it are as many as its consumed futures that ended with
\* another exception, and when the call has returned the records naming it
\* are as many as its futures that failed; there is no other record.
C14_FailuresLogged ==
    LET Records(msg, l) == { k \in DOMAIN log : log[k].msg = msg /\ log[k].link = l }
        Ended(outcome, l) == { i \in DOMAIN futures :
                                  /\ futures[i].link = l
                                  /\ futures[i].state = "FINISHED"
                                  /\ loaded[i] = outcome }
    IN  /\ \A k \in DOMAIN log :
              /\ log[k].msg \in {"Failed to parse", "Error loading page"}
              /\ log[k].link \in Range(links)
        /\ \A l \in Range(links) :
              /\ Cardinality(Records("Failed to parse", l)) =
                     Cardinality(Ended("rejected", l))
              /\ Cardinality(Records("Error loading page", l)) =
                     Cardinality(Ended("error", l) \cap Range(drained))
              /\ pc = "done" =>
                     Cardinality({ k \in DOMAIN log : log[k].link = l }) =
                         Cardinality(Ended("rejected", l) \cup Ended("error", l))

\* One page was rejected by the parser, the other raised another error, and
\* the returned call left one record for each.
C14_Witness ==
    /\ pc = "done"
    /\ Len(futures) = 2
    /\ loaded[1] = "rejected"
    /\ loaded[2] = "error"
    /\ Len(log) = 2
    /\ log[1].link = links[1]

\* C15: whenever a handler that acts on an existing app met a failure (the
\* app is unknown, or the App raised), the handler raised an HTTPException
\* with status 400.
C15_EveryFailureIs400 ==
    (last_request.endpoint \in ActEndpoints /\ last_request.failure # "") =>
        /\ last_request.kind = "HTTPException"
        /\ last_request.status_code = 400

C17_CurrentIndexTargeted ==
    es_last.op \in EsOperations => es_last.index = GetIndex(es_self)

\* C18: the constructor raised ValueError exactly when both arguments were
\* None; otherwise it raised nothing and self.config and the client's URL are
\* those of config when given, of es_config when not.
C18_ConstructionUsesGiven ==
    es_last.op = "__init__" =>
        LET config    == es_last.args[1]
            es_config == es_last.args[2]
            bothNone  == config = NoneConfig /\ es_config = NoneConfig
        IN  /\ (es_last.raised = "ValueError") <=> bothNone
            /\ ~bothNone =>
                  /\ es_last.raised = ""
                  /\ es_pc = "ready"
                  /\ es_self.config = ConfigOr(config, es_config).name
                  /\ es_self.client = ConfigOr(config, es_config).ES_URL

\* C19: generate is only ever called on the model the object was built on and
\* at most once a call; a call whose config names another model raises
\* RuntimeError before anything else is looked at, a call whose config sets
\* system_prompt (and names no other model) raises ValueError, both without a
\* call of generate; a call that returns has called generate exactly once.
C19_NoModelSwitch ==
    LET c        == llm_call
        mismatch == c.config.model # NoModel /\ c.config.model # llm_self.model
        prompted == c.config.system_prompt # ""
    IN  /\ Len(c.generated) <= 1
        /\ \A k \in DOMAIN c.generated : c.generated[k].model = llm_self.model
        /\ (mismatch /\ c.pc # "check_model") =>
              c.pc = "raised" /\ c.raised = "RuntimeError" /\ c.generated = << >>
        /\ (~mismatch /\ prompted /\ c.pc \notin {"check_model", "check_system_prompt"}) =>
              c.pc = "raised" /\ c.raised = "ValueError" /\ c.generated = << >>
        /\ c.pc = "raised" => (mismatch \/ prompted)
        /\ c.pc = "returned" => (~mismatch /\ ~prompted /\ Len(c.generated) = 1)

\* A call that names another model and sets system_prompt has raised: the
\* mismatch is what it reports.
C19_Witness ==
    /\ llm_call.pc = "raised"
    /\ llm_call.config.model \in ModelNames \ {llm_self.model}
    /\ llm_call.config.system_prompt # ""
    /\ llm_call.raised = "RuntimeError"
    /\ llm_call.generated = << >>

==============================================================================
